---- MODULE Spec2Model ----
(***************************************************************************)
(* The editing core of src/components/RichTextEditor.tsx: the reducer, the *)
(* two position converters and the word-unit regular expression.           *)
(*                                                                         *)
(* A JavaScript string is modelled as a sequence of one-character strings; *)
(* JavaScript's 0-based offsets are kept (SubSeq is shifted by one).       *)
(***************************************************************************)
EXTENDS Integers, Sequences, FiniteSets, TLC

VARIABLES state, lastAction, error, bailedOut

vars == <<state, lastAction, error, bailedOut>>

(* ------------------------------ bounds --------------------------------- *)

\* Longest document explored: insert and newline are not taken beyond it.
MaxLen == 3

\* Longest value handed to one insert (a key is one character, a paste more).
MaxInsert == 2

\* Largest |by| of a vertical move (the key handler sends -1 and +1).
MaxBy == 2

\* Characters of the documents: a word character, the space, the line
\* separator (also the second whitespace character) and a punctuation mark.
Chars == {"a", " ", "\n", "."}

\* Characters a key or a paste can deliver: Chars and the carriage return.
InputChars == Chars \cup {"\r"}

(* --------------------------- JavaScript helpers ------------------------ *)

Min(a, b) == IF a < b THEN a ELSE b

Max(a, b) == IF a > b THEN a ELSE b

\* const clamp = (min, num, max) => Math.max(min, Math.min(max, num))
clamp(min, num, max) == Max(min, Min(max, num))

\* String.prototype.slice's index resolution: a negative index counts from
\* the end, and every index is clipped to 0..length.
sliceIndex(n, len) == IF n < 0 THEN Max(len + n, 0) ELSE Min(n, len)

\* text.slice(from, to)
slice(t, from, to) ==
    SubSeq(t, sliceIndex(from, Len(t)) + 1, sliceIndex(to, Len(t)))

\* text.slice(from)
sliceFrom(t, from) == SubSeq(t, sliceIndex(from, Len(t)) + 1, Len(t))

\* text.split("").reverse().join("")
reverse(t) == [i \in 1..Len(t) |-> t[Len(t) + 1 - i]]

\* text.split("\n"): the lines of the text, at least one.
RECURSIVE split(_)
split(t) ==
    LET seps == {i \in 1..Len(t) : t[i] = "\n"}
    IN  IF seps = {} THEN <<t>>
        ELSE LET i == CHOOSE j \in seps : \A k \in seps : j <= k
             IN  <<SubSeq(t, 1, i - 1)>> \o split(SubSeq(t, i + 1, Len(t)))

\* value.replaceAll("\r", "")
RECURSIVE replaceAllCR(_)
replaceAllCR(v) ==
    IF v = <<>> THEN <<>>
    ELSE (IF Head(v) = "\r" THEN <<>> ELSE <<Head(v)>>) \o replaceAllCR(Tail(v))

(* ------------------------ regular-expression classes ------------------- *)

\* \s : whitespace
isSpace(c) == c \in {" ", "\n", "\r", "\t"}

\* \w : letters, digits, underscore
isWord(c) == c \in {"a"}

\* \W : everything \w does not match
isNonWord(c) == ~isWord(c)

\* Membership in the class a regular-expression escape names.
inClass(c, class) ==
    CASE class = "\\s" -> isSpace(c)
      [] class = "\\w" -> isWord(c)
      [] class = "\\W" -> isNonWord(c)

\* Length of the longest run of characters of one class that starts at
\* 1-based index i of t (a greedy quantifier's first try).
RECURSIVE run(_, _, _)
run(t, i, class) ==
    IF i > Len(t) \/ ~inClass(t[i], class) THEN 0
    ELSE 1 + run(t, i + 1, class)

\* Mutant of matchLength: the optional leading character is any whitespace
\* character (\s? in place of " ?").
matchLengthOptionalWhitespace(t) ==
    LET spaces    == run(t, 1, "\\s")
        opt       == IF Len(t) >= 1 /\ isSpace(t[1]) THEN 1 ELSE 0
        wordOpt   == run(t, 1 + opt, "\\w")
        wordNone  == run(t, 1, "\\w")
        otherOpt  == run(t, 1 + opt, "\\W")
        otherNone == run(t, 1, "\\W")
    IN  IF spaces >= 2 THEN spaces
        ELSE IF wordOpt >= 1 THEN opt + wordOpt
        ELSE IF wordNone >= 1 THEN wordNone
        ELSE IF otherOpt >= 1 THEN opt + otherOpt
        ELSE IF otherNone >= 1 THEN otherNone
        ELSE 0

\* textToSearch.match(/\s{2,}| ?\w+| ?\W+|/)?.[0].length ?? 0
\* The last alternative is empty, so the match is always at index 0; the
\* alternatives are tried in order, each with backtracking over " ?".
matchLength(t) ==
    LET spaces    == run(t, 1, "\\s")
        opt       == IF Len(t) >= 1 /\ t[1] = " " THEN 1 ELSE 0
        wordOpt   == run(t, 1 + opt, "\\w")
        wordNone  == run(t, 1, "\\w")
        otherOpt  == run(t, 1 + opt, "\\W")
        otherNone == run(t, 1, "\\W")
    IN  IF spaces >= 2 THEN spaces
        ELSE IF wordOpt >= 1 THEN opt + wordOpt
        ELSE IF wordNone >= 1 THEN wordNone
        ELSE IF otherOpt >= 1 THEN opt + otherOpt
        ELSE IF otherNone >= 1 THEN otherNone
        ELSE 0

\* line.search(/\S/): 0-based index of the first non-whitespace character,
\* -1 when there is none.
search(line) ==
    LET hits == {i \in 1..Len(line) : ~isSpace(line[i])}
    IN  IF hits = {} THEN -1
        ELSE (CHOOSE j \in hits : \A k \in hits : j <= k) - 1

(* --------------------------- position converters ----------------------- *)

\* lines.slice(0, y).reduce((sum, line) => sum + line.length + 1, 0)
RECURSIVE sumBefore(_, _)
sumBefore(lines, y) ==
    IF y <= 0 THEN 0
    ELSE Len(lines[y]) + 1 + sumBefore(lines, y - 1)

\* lines[cursorPosition.y] is undefined, so reading its length throws.
lineLookupThrows(s) ==
    s.cursorPosition.y \notin 0..(Len(split(s.text)) - 1)

getAbsoluteCursorPosition(s) ==
    LET lines == split(s.text)
    IN  Min(s.cursorPosition.x, Len(lines[s.cursorPosition.y + 1]))
        + sumBefore(lines, s.cursorPosition.y)

getCursotPosition(absolutePosition, text) ==
    LET lines == split(slice(text, 0, absolutePosition))
    IN  [x |-> Len(lines[Len(lines)]), y |-> Len(lines) - 1]

(* ------------------------------- reducer ------------------------------- *)

\* type State = { text, cursorPosition }
State(text, cursorPosition) == [text |-> text, cursorPosition |-> cursorPosition]

\* Mutant of caseInsert: the cursor advances by the length of the value as
\* given, carriage returns included.
caseInsertCountsCR(s, action) ==
    LET absoluteCursorPosition == getAbsoluteCursorPosition(s)
        textToInsert == replaceAllCR(action.value)
        newText == slice(s.text, 0, absoluteCursorPosition) \o textToInsert
                   \o sliceFrom(s.text, absoluteCursorPosition)
    IN  State(newText,
              getCursotPosition(absoluteCursorPosition + Len(action.value), newText))

caseInsert(s, action) ==
    LET absoluteCursorPosition == getAbsoluteCursorPosition(s)
        textToInsert == replaceAllCR(action.value)
        newText == slice(s.text, 0, absoluteCursorPosition) \o textToInsert
                   \o sliceFrom(s.text, absoluteCursorPosition)
    IN  State(newText,
              getCursotPosition(absoluteCursorPosition + Len(textToInsert), newText))

\* Mutant of caseBackspace: the word flag is ignored, one character is
\* removed.
caseBackspaceOneCharacter(s, action) ==
    LET absoluteCursorPosition == getAbsoluteCursorPosition(s)
    IN  IF absoluteCursorPosition = 0 THEN s
        ELSE State(slice(s.text, 0, absoluteCursorPosition - 1)
                     \o sliceFrom(s.text, absoluteCursorPosition),
                   getCursotPosition(absoluteCursorPosition - 1, s.text))

\* Mutant of caseBackspace: the "absoluteCursorPosition === 0 ? state"
\* guard of line 279 is missing.
caseBackspaceNoGuard(s, action) ==
    LET absoluteCursorPosition == getAbsoluteCursorPosition(s)
        textToSearch == reverse(slice(s.text, 0, absoluteCursorPosition))
        lengthToDelete == IF action.word THEN matchLength(textToSearch) ELSE 1
    IN  State(slice(s.text, 0, absoluteCursorPosition - lengthToDelete)
                \o sliceFrom(s.text, absoluteCursorPosition),
              getCursotPosition(absoluteCursorPosition - lengthToDelete, s.text))

caseBackspace(s, action) ==
    LET absoluteCursorPosition == getAbsoluteCursorPosition(s)
        textToSearch == reverse(slice(s.text, 0, absoluteCursorPosition))
        lengthToDelete == IF action.word THEN matchLength(textToSearch) ELSE 1
    IN  IF absoluteCursorPosition = 0 THEN s
        ELSE State(slice(s.text, 0, absoluteCursorPosition - lengthToDelete)
                     \o sliceFrom(s.text, absoluteCursorPosition),
                   getCursotPosition(absoluteCursorPosition - lengthToDelete, s.text))

\* Mutant of caseDelete: the cursor is recomputed from the offset, as the
\* other editing cases do.
caseDeleteNormalizesCursor(s, action) ==
    LET absoluteCursorPosition == getAbsoluteCursorPosition(s)
        textToSearch == sliceFrom(s.text, absoluteCursorPosition)
        lengthToDelete == IF action.word THEN matchLength(textToSearch) ELSE 1
    IN  IF absoluteCursorPosition = Len(s.text) THEN s
        ELSE State(slice(s.text, 0, absoluteCursorPosition)
                     \o sliceFrom(s.text, absoluteCursorPosition + lengthToDelete),
                   getCursotPosition(absoluteCursorPosition, s.text))

\* Mutant of caseDelete: the word flag is ignored, one character is removed.
caseDeleteOneCharacter(s, action) ==
    LET absoluteCursorPosition == getAbsoluteCursorPosition(s)
    IN  IF absoluteCursorPosition = Len(s.text) THEN s
        ELSE State(slice(s.text, 0, absoluteCursorPosition)
                     \o sliceFrom(s.text, absoluteCursorPosition + 1),
                   s.cursorPosition)

caseDelete(s, action) ==
    LET absoluteCursorPosition == getAbsoluteCursorPosition(s)
        textToSearch == sliceFrom(s.text, absoluteCursorPosition)
        lengthToDelete == IF action.word THEN matchLength(textToSearch) ELSE 1
    IN  IF absoluteCursorPosition = Len(s.text) THEN s
        ELSE State(slice(s.text, 0, absoluteCursorPosition)
                     \o sliceFrom(s.text, absoluteCursorPosition + lengthToDelete),
                   s.cursorPosition)

caseNewline(s, action) ==
    LET absoluteCursorPosition == getAbsoluteCursorPosition(s)
    IN  State(slice(s.text, 0, absoluteCursorPosition) \o <<"\n">>
                \o sliceFrom(s.text, absoluteCursorPosition),
              [x |-> 0, y |-> s.cursorPosition.y + 1])

\* Mutant of caseMoveCursorHorizontal: the target offset is not clamped.
caseMoveCursorHorizontalNoClamp(s, action) ==
    LET absoluteCursorPosition == getAbsoluteCursorPosition(s)
        textToSearch ==
            IF action.direction = "forward"
            THEN sliceFrom(s.text, absoluteCursorPosition)
            ELSE reverse(slice(s.text, 0, absoluteCursorPosition))
        lengthToMove == IF action.word THEN matchLength(textToSearch) ELSE 1
        by == (IF action.direction = "forward" THEN 1 ELSE -1) * lengthToMove
    IN  State(s.text, getCursotPosition(absoluteCursorPosition + by, s.text))

caseMoveCursorHorizontal(s, action) ==
    LET absoluteCursorPosition == getAbsoluteCursorPosition(s)
        textToSearch ==
            IF action.direction = "forward"
            THEN sliceFrom(s.text, absoluteCursorPosition)
            ELSE reverse(slice(s.text, 0, absoluteCursorPosition))
        lengthToMove == IF action.word THEN matchLength(textToSearch) ELSE 1
        by == (IF action.direction = "forward" THEN 1 ELSE -1) * lengthToMove
    IN  State(s.text,
              getCursotPosition(clamp(0, absoluteCursorPosition + by, Len(s.text)),
                                s.text))

\* Mutant of caseMoveCursorVertical: the column is collapsed to the new
\* line's length.
caseMoveCursorVerticalCollapses(s, action) ==
    LET y == clamp(0, s.cursorPosition.y + action.by, Len(split(s.text)) - 1)
    IN  State(s.text,
              [x |-> Min(s.cursorPosition.x, Len(split(s.text)[y + 1])),
               y |-> y])

caseMoveCursorVertical(s, action) ==
    State(s.text,
          [x |-> s.cursorPosition.x,
           y |-> clamp(0, s.cursorPosition.y + action.by, Len(split(s.text)) - 1)])

\* Mutant of caseHome: no toggle, the cursor always goes to the first
\* non-space column.
caseHomeNoToggle(s, action) ==
    LET currentLineTextStartPosition ==
            search(split(s.text)[s.cursorPosition.y + 1])
    IN  State(s.text,
              IF action.ofText THEN [x |-> 0, y |-> 0]
              ELSE [y |-> s.cursorPosition.y,
                    x |-> currentLineTextStartPosition])

caseHome(s, action) ==
    LET currentLineTextStartPosition ==
            search(split(s.text)[s.cursorPosition.y + 1])
    IN  State(s.text,
              IF action.ofText THEN [x |-> 0, y |-> 0]
              ELSE [y |-> s.cursorPosition.y,
                    x |-> IF s.cursorPosition.x = currentLineTextStartPosition
                          THEN 0 ELSE currentLineTextStartPosition])

caseEnd(s, action) ==
    State(s.text,
          IF action.ofText THEN getCursotPosition(Len(s.text), s.text)
          ELSE [y |-> s.cursorPosition.y,
                x |-> Len(split(s.text)[s.cursorPosition.y + 1])])

\* Mutant of caseSetCaret: the text is cut at the offset along with the
\* cursor computation.
caseSetCaretTruncates(s, action) ==
    State(slice(s.text, 0, action.position),
          getCursotPosition(action.position, s.text))

\* Mutant of caseSetCaret: the offset is taken as a column of the first
\* line.
caseSetCaretFirstLine(s, action) ==
    State(s.text, [x |-> action.position, y |-> 0])

caseSetCaret(s, action) ==
    State(s.text, getCursotPosition(action.position, s.text))

reducer(s, action) ==
    CASE action.type = "insert" -> caseInsert(s, action)
      [] action.type = "backspace" -> caseBackspace(s, action)
      [] action.type = "delete" -> caseDelete(s, action)
      [] action.type = "newline" -> caseNewline(s, action)
      [] action.type = "move cursor horizontal" -> caseMoveCursorHorizontal(s, action)
      [] action.type = "move cursor vertical" -> caseMoveCursorVertical(s, action)
      [] action.type = "home" -> caseHome(s, action)
      [] action.type = "end" -> caseEnd(s, action)
      [] action.type = "set caret" -> caseSetCaret(s, action)

\* The two branches that return the object they were given (lines 279 and
\* 289: "? state :"); every other branch builds a new object.  useReducer
\* skips the render when the reducer returns the object it was given.
returnsInput(s, action) ==
    \/ action.type = "backspace" /\ getAbsoluteCursorPosition(s) = 0
    \/ action.type = "delete" /\ getAbsoluteCursorPosition(s) = Len(s.text)

initialState == State(<<>>, [x |-> 0, y |-> 0])

(* ------------------------------- actions ------------------------------- *)

\* Characters of the pasted values: a word character, the carriage return
\* that insert strips, and the line separator.
PasteChars == {"a", "\r", "\n"}

\* The values handed to insert: a key press gives one character (line 378,
\* and the tab of line 389 is one whitespace character like the space), a
\* paste gives the clipboard's text (line 432).
InsertValues ==
    {<<c>> : c \in InputChars}
        \cup UNION {[1..n -> PasteChars] : n \in 2..MaxInsert}

\* The offsets a pointer hit-test hands to set caret, out-of-range ones too.
CaretPositions == (-1)..(MaxLen + 1)

Directions == {"forward", "backward"}

\* dispatch(action): the reducer runs on the current state (it starts with
\* getAbsoluteCursorPosition(state)) and the component renders the state it
\* returns, which computes getAbsoluteCursorPosition of that state (line
\* 354).  A render that throws leaves no component to take further actions.
\* Documents longer than MaxLen are not explored (insert and newline grow the
\* text, and so does a delete whose offset is negative).
canDispatch(action) ==
    /\ ~error
    /\ Len(reducer(state, action).text) <= MaxLen

Insert ==
    \E v \in InsertValues :
        LET action == [type |-> "insert", value |-> v]
        IN  /\ canDispatch(action)
            /\ state' = reducer(state, action)
            /\ error' = lineLookupThrows(state')
            /\ lastAction' = action
            /\ bailedOut' = returnsInput(state, action)

Backspace ==
    \E w \in BOOLEAN :
        LET action == [type |-> "backspace", word |-> w]
        IN  /\ canDispatch(action)
            /\ state' = reducer(state, action)
            /\ error' = lineLookupThrows(state')
            /\ lastAction' = action
            /\ bailedOut' = returnsInput(state, action)

Delete ==
    \E w \in BOOLEAN :
        LET action == [type |-> "delete", word |-> w]
        IN  /\ canDispatch(action)
            /\ state' = reducer(state, action)
            /\ error' = lineLookupThrows(state')
            /\ lastAction' = action
            /\ bailedOut' = returnsInput(state, action)

Newline ==
    LET action == [type |-> "newline"]
    IN  /\ canDispatch(action)
        /\ state' = reducer(state, action)
        /\ error' = lineLookupThrows(state')
        /\ lastAction' = action
        /\ bailedOut' = returnsInput(state, action)

MoveCursorHorizontal ==
    \E d \in Directions, w \in BOOLEAN :
        LET action == [type |-> "move cursor horizontal", direction |-> d,
                       word |-> w]
        IN  /\ canDispatch(action)
            /\ state' = reducer(state, action)
            /\ error' = lineLookupThrows(state')
            /\ lastAction' = action
            /\ bailedOut' = returnsInput(state, action)

MoveCursorVertical ==
    \E by \in (-MaxBy)..MaxBy :
        LET action == [type |-> "move cursor vertical", by |-> by]
        IN  /\ canDispatch(action)
            /\ state' = reducer(state, action)
            /\ error' = lineLookupThrows(state')
            /\ lastAction' = action
            /\ bailedOut' = returnsInput(state, action)

Home ==
    \E o \in BOOLEAN :
        LET action == [type |-> "home", ofText |-> o]
        IN  /\ canDispatch(action)
            /\ state' = reducer(state, action)
            /\ error' = lineLookupThrows(state')
            /\ lastAction' = action
            /\ bailedOut' = returnsInput(state, action)

End ==
    \E o \in BOOLEAN :
        LET action == [type |-> "end", ofText |-> o]
        IN  /\ canDispatch(action)
            /\ state' = reducer(state, action)
            /\ error' = lineLookupThrows(state')
            /\ lastAction' = action
            /\ bailedOut' = returnsInput(state, action)

SetCaret ==
    \E p \in CaretPositions :
        LET action == [type |-> "set caret", position |-> p]
        IN  /\ canDispatch(action)
            /\ state' = reducer(state, action)
            /\ error' = lineLookupThrows(state')
            /\ lastAction' = action
            /\ bailedOut' = returnsInput(state, action)

Init ==
    /\ state = initialState
    /\ lastAction = [type |-> "none"]
    /\ error = FALSE
    /\ bailedOut = FALSE

Next ==
    \/ Insert
    \/ Backspace
    \/ Delete
    \/ Newline
    \/ MoveCursorHorizontal
    \/ MoveCursorVertical
    \/ Home
    \/ End
    \/ SetCaret

Spec == Init /\ [][Next]_vars

(* ------------------- the data model's vocabulary (3) ------------------- *)

\* 1-based indices of the line separators of a text.
separators(t) == {i \in 1..Len(t) : t[i] = "\n"}

\* Number of pieces obtained by splitting the text on "\n".
lineCount(t) == Cardinality(separators(t)) + 1

\* Linear offset of the first character of line y: 0 for the first line,
\* else the offset just after the y-th separator.
lineStart(t, y) ==
    IF y = 0 THEN 0
    ELSE CHOOSE i \in separators(t) :
             Cardinality({j \in separators(t) : j <= i}) = y

\* Length of line y, separators excluded.
lineLength(t, y) ==
    (IF y = lineCount(t) - 1 THEN Len(t) ELSE lineStart(t, y + 1) - 1)
        - lineStart(t, y)

\* A structurally valid state: 0 <= y <= lineCount - 1 and x >= 0.
validState(s) ==
    /\ s.cursorPosition.y \in 0..(lineCount(s.text) - 1)
    /\ s.cursorPosition.x >= 0

\* The effective cursor: the desired column clamped to the line's length.
effectiveCursor(s) ==
    [x |-> Min(s.cursorPosition.x, lineLength(s.text, s.cursorPosition.y)),
     y |-> s.cursorPosition.y]

\* The linear offset a state denotes: start of line y plus effective column.
linearOffset(s) == lineStart(s.text, s.cursorPosition.y) + effectiveCursor(s).x

(* -------------------------------- claims ------------------------------- *)

\* C1: in every state reachable from the initial state the cursor's line
\* index satisfies 0 <= cursorPosition.y <= lineCount(text) - 1.
C1_LineIndexInRange ==
    state.cursorPosition.y \in 0..(lineCount(state.text) - 1)

\* C2: in every state reachable from the initial state the desired column
\* is never negative: cursorPosition.x >= 0.
C2_ColumnNonNegative == state.cursorPosition.x >= 0

\* C3: no operation raises an error: after every action the state the
\* reducer returned can be rendered, i.e. the line lookup
\* lines[cursorPosition.y] of getAbsoluteCursorPosition is never undefined.
C3_NoOperationThrows == error = FALSE

\* C4: round trip: in every reachable state s (whose offset is defined)
\* getCursotPosition(getAbsoluteCursorPosition(s), s.text) is the effective
\* cursor of s: x = min(x, length(line[y])), and y is preserved.
C4_RoundTrip ==
    ~error =>
        getCursotPosition(getAbsoluteCursorPosition(state), state.text)
            = effectiveCursor(state)

\* C5: edge no-ops: a backspace (word-wise or not) taken in a state whose
\* linear offset is 0 returns a state equal to it, and so does a delete
\* (word-wise or not) taken in a state whose linear offset is length(text).
C5_EdgeNoOps ==
    [][/\ (lastAction'.type = "backspace" /\ linearOffset(state) = 0)
            => state' = state
       /\ (lastAction'.type = "delete"
            /\ linearOffset(state) = Len(state.text))
            => state' = state]_vars

\* C5 witness: a word-wise backspace has just returned its input at offset
\* 0 of a non-empty document whose desired column overshoots the empty
\* first line (a state only a no-op can leave with that cursor).
C5_Witness ==
    /\ bailedOut
    /\ lastAction = [type |-> "backspace", word |-> TRUE]
    /\ state.text = <<"\n", "a", "a">>
    /\ state.cursorPosition = [x |-> 2, y |-> 0]

(* Vocabulary of the per-operation claims: a step is recognised by the    *)
(* action it recorded; its input is the unprimed state, its result the     *)
(* primed one.                                                             *)

\* The characters of line y.
lineText(t, y) == SubSeq(t, lineStart(t, y) + 1, lineStart(t, y) + lineLength(t, y))

\* Index of the first non-whitespace character of a line, -1 when the line
\* is empty or all whitespace.
firstNonSpace(line) ==
    IF \A i \in 1..Len(line) : line[i] \in {" ", "\n", "\r", "\t"} THEN -1
    ELSE (CHOOSE i \in 1..Len(line) :
              /\ line[i] \notin {" ", "\n", "\r", "\t"}
              /\ \A j \in 1..(i - 1) : line[j] \in {" ", "\n", "\r", "\t"}) - 1

\* A value stripped of all its carriage returns.
stripCR(v) == SelectSeq(v, LAMBDA c : c # "\r")

\* Characters [from, to) of a text, by 0-based offsets with from <= to.
chars(t, from, to) == SubSeq(t, from + 1, to)

moveForwardWord ==
    [type |-> "move cursor horizontal", direction |-> "forward", word |-> TRUE]

\* C6: word motion/deletion symmetry (forward): from every valid state the
\* number of characters delete (word=true) removes equals the increase in
\* linear offset move cursor horizontal (forward, word=true) produces from
\* the same state, and the removed characters are the ones the move skips.
C6_WordDeleteEqualsWordMove ==
    [][(lastAction' = [type |-> "delete", word |-> TRUE] /\ validState(state))
        => LET a == linearOffset(state)
               b == linearOffset(reducer(state, moveForwardWord))
           IN  /\ b >= a
               /\ Len(state.text) - Len(state'.text) = b - a
               /\ state'.text = chars(state.text, 0, a)
                                  \o chars(state.text, b, Len(state.text))]_vars

\* C6 witness: a word-wise delete has removed the word "a" in front of
\* " a"; the unit now in front of the cursor is the two characters " a".
C6_Witness ==
    /\ lastAction = [type |-> "delete", word |-> TRUE]
    /\ ~bailedOut
    /\ state = State(<<" ", "a">>, [x |-> 0, y |-> 0])

\* C7: insert: from every valid state with linear offset a, inserting v
\* with t = v stripped of carriage returns gives the text
\* text[0..a) + t + text[a..), a cursor whose linear offset is
\* a + length(t), and a normalized cursor (x <= length of its line).
C7_Insert ==
    [][(lastAction'.type = "insert" /\ validState(state))
        => LET a == linearOffset(state)
               t == stripCR(lastAction'.value)
           IN  /\ state'.text = chars(state.text, 0, a) \o t
                                  \o chars(state.text, a, Len(state.text))
               /\ validState(state')
               /\ linearOffset(state') = a + Len(t)
               /\ state'.cursorPosition.x
                    <= lineLength(state'.text, state'.cursorPosition.y)]_vars

\* C7 witness: the scenario's last step at this alphabet: after "a" and a
\* newline, a paste of "a" with a carriage return gives "a\na", cursor (1,1).
C7_Witness ==
    /\ lastAction = [type |-> "insert", value |-> <<"\r", "a">>]
    /\ state = State(<<"a", "\n", "a">>, [x |-> 1, y |-> 1])

\* C8: home on a line with no non-space character: from every valid state
\* whose line y is empty or all whitespace, home (ofText=false) moves the
\* cursor to column 0 of line y, whether or not it was already at column 0.
C8_HomeOnBlankLine ==
    [][(/\ lastAction' = [type |-> "home", ofText |-> FALSE]
        /\ validState(state)
        /\ firstNonSpace(lineText(state.text, state.cursorPosition.y)) = -1)
        => state'.cursorPosition = [x |-> 0, y |-> state.cursorPosition.y]]_vars

\* C9: smart-home toggle: from every valid state whose line y has its first
\* non-space character at index s >= 0, home (ofText=false) leaves the text
\* unchanged and yields (s, y) when the effective column differs from s and
\* (0, y) when it equals s, so a second home after the first case ends at
\* column 0; home (ofText=true) always yields (0, 0).
C9_SmartHome ==
    [][(lastAction'.type = "home" /\ validState(state))
        => LET y == state.cursorPosition.y
               s == firstNonSpace(lineText(state.text, y))
               col == effectiveCursor(state).x
               again == reducer(state', [type |-> "home", ofText |-> FALSE])
           IN  /\ state'.text = state.text
               /\ lastAction'.ofText => state'.cursorPosition = [x |-> 0, y |-> 0]
               /\ (~lastAction'.ofText /\ s >= 0 /\ col # s)
                    => /\ state'.cursorPosition = [x |-> s, y |-> y]
                       /\ again.cursorPosition = [x |-> 0, y |-> y]
               /\ (~lastAction'.ofText /\ s >= 0 /\ col = s)
                    => state'.cursorPosition = [x |-> 0, y |-> y]]_vars

\* C9 witness: the scenario at this alphabet: on "  a" the second home,
\* taken at the first non-space column 2, has moved the cursor to (0,0),
\* a cursor home (ofText=false) yields on this line from column 2 only.
C9_Witness ==
    /\ lastAction = [type |-> "home", ofText |-> FALSE]
    /\ state = State(<<" ", " ", "a">>, [x |-> 0, y |-> 0])

\* C10: sticky column: from every valid state and for every by, move cursor
\* vertical leaves the text and cursorPosition.x unchanged and sets
\* y' = clamp(0, y + by, lineCount - 1); the linear offset of the result is
\* the start of line y' plus min(x, length(line[y'])).
C10_StickyColumn ==
    [][(lastAction'.type = "move cursor vertical" /\ validState(state))
        => LET y == state.cursorPosition.y
               target == y + lastAction'.by
               last == lineCount(state.text) - 1
               newY == IF target < 0 THEN 0
                       ELSE IF target > last THEN last ELSE target
           IN  /\ state'.text = state.text
               /\ state'.cursorPosition.x = state.cursorPosition.x
               /\ state'.cursorPosition.y = newY
               /\ getAbsoluteCursorPosition(state')
                    = lineStart(state.text, newY)
                        + Min(state.cursorPosition.x,
                              lineLength(state.text, newY))]_vars

\* C10 witness: the scenario at this alphabet: from "aa\n" with the cursor
\* at the end of line 0, by = +1 has given (2,1) on the empty line 1: the
\* column overshoots and the offset is the end of line 1.
C10_Witness ==
    /\ lastAction = [type |-> "move cursor vertical", by |-> 1]
    /\ state = State(<<"a", "a", "\n">>, [x |-> 2, y |-> 1])
    /\ getAbsoluteCursorPosition(state) = 3

(* Vocabulary of the word-unit claims: the classification rules of 4.2,   *)
(* stated over character sets.                                             *)

WordCharacters == {"a"}

WhitespaceCharacters == {" ", "\n", "\r", "\t"}

NonWordCharacters == (InputChars \cup WhitespaceCharacters) \ WordCharacters

\* Length of the maximal run of characters of set S that starts at 1-based
\* index i of t.
maximalRun(t, i, S) ==
    CHOOSE n \in 0..Len(t) :
        /\ \A j \in i..(i + n - 1) : j <= Len(t) /\ t[j] \in S
        /\ (i + n > Len(t) \/ t[i + n] \notin S)

\* The unit of a run by the precedence rules, the optional single leading
\* space of rules 2 and 3 being a character of Optional:
\* (1) two or more leading whitespace characters: the maximal whitespace run;
\* (2) else zero or one space then word characters: both;
\* (3) else zero or one space then non-word characters: both;
\* (4) else 0.
unitByRules(t, Optional) ==
    LET leading == maximalRun(t, 1, WhitespaceCharacters)
        one == IF Len(t) >= 1 /\ t[1] \in Optional THEN 1 ELSE 0
    IN  IF leading >= 2 THEN leading
        ELSE IF maximalRun(t, 1 + one, WordCharacters) >= 1
            THEN one + maximalRun(t, 1 + one, WordCharacters)
        ELSE IF maximalRun(t, 1 + one, NonWordCharacters) >= 1
            THEN one + maximalRun(t, 1 + one, NonWordCharacters)
        ELSE IF maximalRun(t, 1, NonWordCharacters) >= 1
            THEN maximalRun(t, 1, NonWordCharacters)
        ELSE 0

\* The run a word-wise step scans from offset a: the text after a going
\* forward, the text before a read backwards going backward.
forwardRun(s) == chars(s.text, linearOffset(s), Len(s.text))

backwardRun(s) ==
    LET before == chars(s.text, 0, linearOffset(s))
    IN  [i \in 1..Len(before) |-> before[Len(before) + 1 - i]]

\* The unit lengths the three word-wise operations use agree with the
\* rules under a given reading of the optional space.  What a step used
\* is read off its effect: characters removed, or offset moved.
wordStepsFollowRules(Optional) ==
    /\ lastAction' = [type |-> "delete", word |-> TRUE]
        => Len(state.text) - Len(state'.text)
             = unitByRules(forwardRun(state), Optional)
    /\ lastAction' = [type |-> "backspace", word |-> TRUE]
        => Len(state.text) - Len(state'.text)
             = unitByRules(backwardRun(state), Optional)
    /\ lastAction' = moveForwardWord
        => linearOffset(state') - linearOffset(state)
             = unitByRules(forwardRun(state), Optional)
    /\ lastAction' = [type |-> "move cursor horizontal",
                      direction |-> "backward", word |-> TRUE]
        => linearOffset(state) - linearOffset(state')
             = unitByRules(backwardRun(state), Optional)

\* C11 as stated: the unit length word-wise backspace, delete and horizontal
\* motion use equals the result of the precedence rules, "space character"
\* meaning any whitespace character in every rule.
C11_UnitByRulesAnyWhitespace ==
    [][validState(state) => wordStepsFollowRules(WhitespaceCharacters)]_vars

\* C11 amended: the same, the optional single leading space of rules 2 and
\* 3 being the space character ' ' alone (rule 1 still counts every
\* whitespace character); any other single whitespace character is a
\* non-word character of rule 3.
C11_UnitByRules ==
    [][validState(state) => wordStepsFollowRules({" "})]_vars

\* C11 witness: on "\na" a forward word move from offset 0 has stopped at
\* offset 1, after the separator alone: the unit was 1, not 2.
C11_Witness ==
    /\ lastAction = moveForwardWord
    /\ state = State(<<"\n", "a">>, [x |-> 0, y |-> 1])

\* The step length of a horizontal move: 1, or with word=true the unit of
\* the run in the move's direction.
stepLength(s, action) ==
    IF ~action.word THEN 1
    ELSE IF action.direction = "forward" THEN unitByRules(forwardRun(s), {" "})
    ELSE unitByRules(backwardRun(s), {" "})

\* The document of the scenario "foo  bar", every letter written "a".
fooBar == <<"a", "a", "a", " ", " ", "a", "a", "a">>

\* The offsets successive forward word moves visit on "foo  bar" from 0.
fooBarOffsets ==
    LET s0 == State(fooBar, [x |-> 0, y |-> 0])
        s1 == reducer(s0, moveForwardWord)
        s2 == reducer(s1, moveForwardWord)
        s3 == reducer(s2, moveForwardWord)
    IN  <<getAbsoluteCursorPosition(s1), getAbsoluteCursorPosition(s2),
          getAbsoluteCursorPosition(s3)>>

\* C12: horizontal motion: from every valid state with linear offset a, move
\* cursor horizontal leaves the text unchanged and yields a normalized
\* cursor whose linear offset is clamp(0, a + k, length(text)) forward and
\* clamp(0, a - k, length(text)) backward, k being 1 or the word unit in
\* that direction; on "foo  bar" from offset 0 successive forward word
\* moves visit offsets 3, 5, 8.
C12_HorizontalMotion ==
    [][(lastAction'.type = "move cursor horizontal" /\ validState(state))
        => LET a == linearOffset(state)
               k == stepLength(state, lastAction')
               to == IF lastAction'.direction = "forward" THEN a + k ELSE a - k
               clamped == IF to < 0 THEN 0
                          ELSE IF to > Len(state.text) THEN Len(state.text)
                          ELSE to
           IN  /\ state'.text = state.text
               /\ validState(state')
               /\ state'.cursorPosition.x
                    <= lineLength(state'.text, state'.cursorPosition.y)
               /\ linearOffset(state') = clamped
               /\ fooBarOffsets = <<3, 5, 8>>]_vars

\* C12 witness: a backward move of one character has left the cursor at
\* (0,0) of "\naa"; it is reached from the overshooting cursor (2,0), where
\* the target -1 is clamped to 0 and the column normalized.
C12_Witness ==
    /\ lastAction = [type |-> "move cursor horizontal",
                     direction |-> "backward", word |-> FALSE]
    /\ state = State(<<"\n", "a", "a">>, [x |-> 0, y |-> 0])

\* The state after n applications of one action.
RECURSIVE applyTimes(_, _, _)
applyTimes(s, action, n) ==
    IF n = 0 THEN s ELSE applyTimes(reducer(s, action), action, n - 1)

\* The values without carriage returns.
PlainValues == {v \in InsertValues : \A i \in 1..Len(v) : v[i] # "\r"}

\* The text after insert(t), set caret(o) and length(t) deletes (word=false).
insertThenDelete(s, t) ==
    LET o == linearOffset(s)
        inserted == reducer(s, [type |-> "insert", value |-> t])
        placed == reducer(inserted, [type |-> "set caret", position |-> o])
    IN  applyTimes(placed, [type |-> "delete", word |-> FALSE], Len(t)).text

\* C13: insert/delete inverse: from every valid state s with linear offset o
\* and for every string t without carriage returns, insert(t), then
\* set caret(o), then length(t) deletes with word=false give back s.text.
C13_InsertDeleteInverse ==
    (validState(state) /\ ~error)
        => \A t \in PlainValues : insertThenDelete(state, t) = state.text

\* C13 witness: the last delete of such a sequence has acted: "a." with the
\* cursor after "a" is the state that insert("\n"), set caret(1) and one
\* delete, which joins the two lines again, leave when started from it.
C13_Witness ==
    /\ lastAction = [type |-> "delete", word |-> FALSE]
    /\ ~bailedOut
    /\ state = State(<<"a", ".">>, [x |-> 1, y |-> 0])
    /\ reducer(reducer(state, [type |-> "insert", value |-> <<"\n">>]),
               [type |-> "set caret", position |-> 1])
         = State(<<"a", "\n", ".">>, [x |-> 1, y |-> 0])

\* C14: delete: from every valid state with linear offset a < length(text),
\* delete removes exactly the k characters text[a..a+k) (k = 1, or the
\* forward word unit when word=true), leaves text[0..a) and text[a+k..)
\* intact and leaves cursorPosition (x, y) exactly as it was.
C14_Delete ==
    [][(/\ lastAction'.type = "delete"
        /\ validState(state)
        /\ linearOffset(state) < Len(state.text))
        => LET a == linearOffset(state)
               k == IF lastAction'.word
                    THEN unitByRules(forwardRun(state), {" "}) ELSE 1
           IN  /\ k >= 1
               /\ a + k <= Len(state.text)
               /\ state'.text = chars(state.text, 0, a)
                                  \o chars(state.text, a + k, Len(state.text))
               /\ state'.cursorPosition = state.cursorPosition]_vars

\* C14 witness: a delete has removed the separator after the empty line 1 of
\* "a\n\n" and left the overshooting cursor (1,1) as it was.
C14_Witness ==
    /\ lastAction.type = "delete"
    /\ ~bailedOut
    /\ state = State(<<"a", "\n">>, [x |-> 1, y |-> 1])

moveBackwardWord ==
    [type |-> "move cursor horizontal", direction |-> "backward", word |-> TRUE]

\* C15: backspace: from every valid state with linear offset a > 0,
\* backspace removes exactly the k characters text[a-k..a) with
\* 1 <= k <= a (k = 1, or the backward word unit when word=true) and the
\* resulting cursor's linear offset is a - k; with word=true the resulting
\* cursor is the one move cursor horizontal (backward, word=true) yields
\* from the same state.
C15_Backspace ==
    [][(/\ lastAction'.type = "backspace"
        /\ validState(state)
        /\ linearOffset(state) > 0)
        => LET a == linearOffset(state)
               k == IF lastAction'.word
                    THEN unitByRules(backwardRun(state), {" "}) ELSE 1
           IN  /\ k >= 1
               /\ k <= a
               /\ state'.text = chars(state.text, 0, a - k)
                                  \o chars(state.text, a, Len(state.text))
               /\ validState(state')
               /\ linearOffset(state') = a - k
               /\ lastAction'.word
                    => state'.cursorPosition
                         = reducer(state, moveBackwardWord).cursorPosition]_vars

\* C15 witness: a word-wise backspace has removed the one non-word
\* character that followed " a" (a unit of length 1); the cursor stands
\* after "a", where the backward word move stops too.
C15_Witness ==
    /\ lastAction = [type |-> "backspace", word |-> TRUE]
    /\ state = State(<<" ", "a">>, [x |-> 2, y |-> 0])

\* C16: set caret: for every text and every offset o with
\* 0 <= o <= length(text), set caret(o) leaves the text unchanged and yields
\* a cursor whose linear offset is exactly o; a request outside that range
\* is clamped to the nearest in-range offset, and none raises.  (Stated
\* over the valid states, where it already fails.)
C16_SetCaret ==
    [][(lastAction'.type = "set caret" /\ validState(state))
        => LET o == lastAction'.position
               nearest == IF o < 0 THEN 0
                          ELSE IF o > Len(state.text) THEN Len(state.text)
                          ELSE o
           IN  /\ state'.text = state.text
               /\ ~error'
               /\ getAbsoluteCursorPosition(state') = nearest]_vars

\* C17: newline: from every reachable state with linear offset a, newline
\* inserts exactly one "\n" at offset a and the resulting cursor
\* (x = 0, y = y + 1) denotes linear offset a + 1 in the new text: it equals
\* getCursotPosition(a + 1, newText).
C17_Newline ==
    [][lastAction'.type = "newline"
        => LET a == getAbsoluteCursorPosition(state)
           IN  /\ a \in 0..Len(state.text)
               /\ Len(state'.text) = Len(state.text) + 1
               /\ state'.text = chars(state.text, 0, a) \o <<"\n">>
                                  \o chars(state.text, a, Len(state.text))
               /\ state'.cursorPosition
                    = [x |-> 0, y |-> state.cursorPosition.y + 1]
               /\ ~error'
               /\ getAbsoluteCursorPosition(state') = a + 1
               /\ state'.cursorPosition
                    = getCursotPosition(a + 1, state'.text)]_vars

\* C18: forward deletion does not relocate the cursor: from every reachable
\* state, those whose desired column exceeds the length of line y included,
\* the linear offset after delete (word-wise or not) is the linear offset
\* before it.  (Stated over the valid states, where it already fails.)
C18_DeleteKeepsOffset ==
    [][(lastAction'.type = "delete" /\ validState(state))
        => /\ ~error'
           /\ getAbsoluteCursorPosition(state')
                = getAbsoluteCursorPosition(state)]_vars

backspaceWord == [type |-> "backspace", word |-> TRUE]

\* C19: word-wise progress: from every reachable state with linear offset
\* a < length(text) a forward word move strictly increases the offset, and
\* from a > 0 a backward word move (and a word-wise backspace) strictly
\* decreases it; so length(text) forward word moves reach offset
\* length(text), and length(text) word-wise backspaces reach offset 0.
C19_WordProgress ==
    ~error =>
        LET a == getAbsoluteCursorPosition(state)
            n == Len(state.text)
            forward == reducer(state, moveForwardWord)
            backward == reducer(state, moveBackwardWord)
            erased == reducer(state, backspaceWord)
        IN  /\ a < n => getAbsoluteCursorPosition(forward) > a
            /\ a > 0 => /\ getAbsoluteCursorPosition(backward) < a
                        /\ getAbsoluteCursorPosition(erased) < a
            /\ getAbsoluteCursorPosition(applyTimes(state, moveForwardWord, n))
                 = n
            /\ getAbsoluteCursorPosition(applyTimes(state, backspaceWord, n))
                 = 0

\* C20: motion actions never edit the document: every move cursor
\* horizontal, move cursor vertical, home, end and set caret step leaves
\* the text identical.
C20_MotionKeepsText ==
    [][lastAction'.type \in {"move cursor horizontal", "move cursor vertical",
                             "home", "end", "set caret"}
        => state'.text = state.text]_vars

\* C20 witness: an end (ofText=false) step has moved the cursor from the
\* overshooting column of C10's witness to the end of the empty line 1 of
\* "aa\n".
C20_Witness ==
    /\ lastAction = [type |-> "end", ofText |-> FALSE]
    /\ state = State(<<"a", "a", "\n">>, [x |-> 0, y |-> 1])

====
